---------------------------- MODULE Spec2Model ----------------------------
(***************************************************************************)
(* Model of src/app.py: the county diabetes-risk dashboard.                *)
(*                                                                         *)
(* Strings that the program inspects character by character (county names *)
(* and chat messages) are tuples of one-character strings.  A table cell   *)
(* is a tuple: <<>> is pandas' NaN (a missing value), <<v>> a number or a  *)
(* label, <<n, d>> the exact fraction n/d (a percentile).  Diabetes is     *)
(* stored in tenths of a percent, percentiles and the bin edges of pd.cut  *)
(* in hundredths, every other number in its own unit.                      *)
(***************************************************************************)
EXTENDS Integers, Sequences, FiniteSets, TLC

VARIABLES raw,             \* the table as pd.read_csv returned it (line 23)
          data,            \* the module-level table after lines 25-51
          counties,        \* the module-level county list (lines 28-30)
          texas_diabetes,  \* the module-level benchmark (lines 54-57)
          selected,        \* the sidebar selectbox value (line 136)
          messages,        \* st.session_state.messages
          county_found,    \* local of the last chat run (lines 238-240)
          raised           \* whether the last chat run ended in an exception

vars == <<raw, data, counties, texas_diabetes, selected, messages,
          county_found, raised>>

----------------------------------------------------------------------------
(* Bounds of the model. *)

MaxRows == 3
MaxTurns == 2

----------------------------------------------------------------------------
(* Characters and strings. *)

\* The characters used, listed in code-point order.
Alphabet == <<" ", "G", "T", "W", "a", "d", "e", "g", "h", "i", "n", "o", "r",
              "s", "t", "w", "x", "y">>

\* The code-point rank of a character: Python compares str by code point.
Ord(ch) == CHOOSE i \in 1..Len(Alphabet) : Alphabet[i] = ch

\* str.lower on one character.
LowerChar(ch) == CASE ch = "G" -> "g"
                   [] ch = "T" -> "t"
                   [] ch = "W" -> "w"
                   [] OTHER -> ch

\* str.lower
Lower(s) == [i \in 1..Len(s) |-> LowerChar(s[i])]

RECURSIVE LStrip(_)
LStrip(s) == IF s # <<>> /\ Head(s) = " " THEN LStrip(Tail(s)) ELSE s

RECURSIVE RStrip(_)
RStrip(s) == IF s # <<>> /\ s[Len(s)] = " "
             THEN RStrip(SubSeq(s, 1, Len(s) - 1)) ELSE s

\* str.strip
Strip(s) == RStrip(LStrip(s))

\* Python's `sub in s` on str.
Contains(s, sub) ==
    \E i \in 0..(Len(s) - Len(sub)) : SubSeq(s, i + 1, i + Len(sub)) = sub

\* Python's `a < b` on str: lexicographic by code point.
RECURSIVE StrLess(_, _)
StrLess(a, b) ==
    IF b = <<>> THEN FALSE
    ELSE IF a = <<>> THEN TRUE
    ELSE IF Head(a) # Head(b) THEN Ord(Head(a)) < Ord(Head(b))
    ELSE StrLess(Tail(a), Tail(b))

texas == <<"t", "e", "x", "a", "s">>

\* c.lower() != "texas" (lines 29, 37, 55, 183)
IsTexas(c) == Lower(c) = texas

----------------------------------------------------------------------------
(* Cells. *)

NaN == <<>>
notna(x) == x # NaN

\* pd.cut's bin edges, in hundredths of a percent (line 48).
BinLow == 0
BinModerate == 3333
BinHigh == 6666
BinTop == 10000

\* A percentile cell <<n, d>> against a bin edge e given in hundredths.
PctLeq(p, e) == p[1] * 100 <= e * p[2]
PctEq(p, e) == p[1] * 100 = e * p[2]

----------------------------------------------------------------------------
(* The loader and normaliser: module level, lines 23-57.  A table is a     *)
(* record of its column names and its rows in file order; a row is a       *)
(* function from the column names to cells, County being a string.         *)

\* data["County"] = data["County"].astype(str).str.strip()  (line 25)
StripCounty(tbl) ==
    [columns |-> tbl.columns,
     rows |-> [i \in 1..Len(tbl.rows) |->
                  [tbl.rows[i] EXCEPT !.County = Strip(@)]]]

\* Series.unique(): the distinct values in order of first appearance.
UniqueKeepsAll(xs) == xs

RECURSIVE Unique(_)
Unique(xs) ==
    IF xs = <<>> THEN <<>>
    ELSE LET rest == Unique(SubSeq(xs, 1, Len(xs) - 1))
             x == xs[Len(xs)]
         IN IF \E i \in 1..Len(rest) : rest[i] = x THEN rest
            ELSE Append(rest, x)

\* One step of sorted(): x put before the first element greater than it.
RECURSIVE Insert(_, _)
Insert(x, ys) ==
    IF ys = <<>> THEN <<x>>
    ELSE IF StrLess(x, Head(ys)) THEN <<x>> \o ys
    ELSE <<Head(ys)>> \o Insert(x, Tail(ys))

\* sorted() on a list of str.
RECURSIVE Sorted(_)
Sorted(xs) == IF xs = <<>> THEN <<>>
              ELSE Insert(xs[Len(xs)], Sorted(SubSeq(xs, 1, Len(xs) - 1)))

\* The list comprehension's filter (line 29).
NotTexas(xs) == SelectSeq(xs, LAMBDA c : ~IsTexas(c))

CountyColumn(tbl) == [i \in 1..Len(tbl.rows) |-> tbl.rows[i].County]

\* counties = sorted([c for c in data["County"].dropna().unique()
\*                    if c.lower() != "texas"])   (lines 28-30)
CountyList(tbl) == Sorted(NotTexas(Unique(CountyColumn(tbl))))

\* Series.rank(pct=True) * 100 (line 38): the average rank of the score
\* among the non-missing scores, over their count; NaN stays NaN.
RankPct(scores, i) ==
    IF ~notna(scores[i]) THEN NaN
    ELSE LET v == scores[i][1]
             present == {j \in 1..Len(scores) : notna(scores[j])}
             less == Cardinality({j \in present : scores[j][1] < v})
             equal == Cardinality({j \in present : scores[j][1] = v})
         IN <<100 * (2 * less + equal + 1), 2 * Cardinality(present)>>

\* tmp_counties (lines 36-38): the non-Texas rows, as (County, percentile).
TmpCounties(tbl) ==
    LET rows == SelectSeq(tbl.rows, LAMBDA r : ~IsTexas(r.County))
        scores == [i \in 1..Len(rows) |-> rows[i].Risk_Score]
    IN [i \in 1..Len(rows) |->
           [County |-> rows[i].County, Risk_Percentile |-> RankPct(scores, i)]]

WithCell(r, col, v) ==
    [c \in DOMAIN r \cup {col} |-> IF c = col THEN v ELSE r[c]]

\* DataFrame.merge(right, on="County", how="left") (lines 39-43): each left
\* row once per right row of the same County, or once with NaN.
RECURSIVE MergeRows(_, _)
MergeRows(left, right) ==
    IF left = <<>> THEN <<>>
    ELSE LET r == Head(left)
             hits == SelectSeq(right, LAMBDA t : t.County = r.County)
         IN (IF hits = <<>> THEN <<WithCell(r, "Risk_Percentile", NaN)>>
             ELSE [k \in 1..Len(hits) |->
                      WithCell(r, "Risk_Percentile", hits[k].Risk_Percentile)])
            \o MergeRows(Tail(left), right)

\* Lines 34-43.
DerivePercentile(tbl) ==
    IF "Risk_Percentile" \notin tbl.columns /\ "Risk_Score" \in tbl.columns
    THEN [columns |-> tbl.columns \cup {"Risk_Percentile"},
          rows |-> MergeRows(tbl.rows, TmpCounties(tbl))]
    ELSE tbl

\* pd.cut with right=False instead of the default right=True.
CutLeftClosed(p) ==
    IF ~notna(p) THEN NaN
    ELSE IF ~PctLeq(p, BinTop) \/ (PctLeq(p, BinLow) /\ ~PctEq(p, BinLow))
         THEN NaN
    ELSE IF PctLeq(p, BinModerate) /\ ~PctEq(p, BinModerate) THEN <<"Low">>
    ELSE IF PctLeq(p, BinHigh) /\ ~PctEq(p, BinHigh) THEN <<"Moderate">>
    ELSE <<"High">>

\* pd.cut(x, bins=[0, 33.33, 66.66, 100], labels=[...], include_lowest=True)
\* on one cell (lines 46-51): bins closed on the right, the first one also
\* on the left; NaN and values outside the bins give NaN.
Cut(p) ==
    IF ~notna(p) THEN NaN
    ELSE IF ~PctLeq(p, BinTop) THEN NaN
    ELSE IF PctLeq(p, BinLow) THEN (IF PctEq(p, BinLow) THEN <<"Low">> ELSE NaN)
    ELSE IF PctLeq(p, BinModerate) THEN <<"Low">>
    ELSE IF PctLeq(p, BinHigh) THEN <<"Moderate">>
    ELSE <<"High">>

\* Lines 45-51.
DeriveCategory(tbl) ==
    IF "Risk_Category" \notin tbl.columns /\ "Risk_Percentile" \in tbl.columns
    THEN [columns |-> tbl.columns \cup {"Risk_Category"},
          rows |-> [i \in 1..Len(tbl.rows) |->
                       WithCell(tbl.rows[i], "Risk_Category",
                                Cut(tbl.rows[i].Risk_Percentile))]]
    ELSE tbl

\* The table after lines 25-51.
Normalised(tbl) == DeriveCategory(DerivePercentile(StripCounty(tbl)))

None == <<"None">>

\* texas_diabetes (lines 54-57): <<>> is Python's None, <<cell>> the cell
\* of the first statewide row, which may itself be NaN.
NoBenchmark == <<>>

TexasDiabetes(tbl) ==
    LET texas_row == SelectSeq(tbl.rows, LAMBDA r : IsTexas(r.County))
    IN IF texas_row # <<>> /\ "Diabetes" \in tbl.columns
       THEN <<texas_row[1].Diabetes>>
       ELSE NoBenchmark

----------------------------------------------------------------------------
(* The helpers, lines 61-127. *)

\* find_county_from_text scanning the County column in file order instead
\* of the sorted list.
find_county_table_order(user_text) ==
    LET msg == Lower(user_text)
        hits == SelectSeq(NotTexas(Unique(CountyColumn(data))),
                          LAMBDA c : Contains(msg, Lower(c)))
    IN IF hits = <<>> THEN None ELSE hits[1]

\* find_county_from_text with the lower-casing of the message left out.
find_county_case_sensitive(user_text) ==
    LET hits == SelectSeq(counties, LAMBDA c : Contains(user_text, Lower(c)))
    IN IF hits = <<>> THEN None ELSE hits[1]

\* find_county_from_text (lines 61-67): the first county of the list whose
\* lower-cased name is in the lower-cased message, or None.
find_county_from_text(user_text) ==
    LET msg == Lower(user_text)
        hits == SelectSeq(counties, LAMBDA c : Contains(msg, Lower(c)))
    IN IF hits = <<>> THEN None ELSE hits[1]

\* An exception leaving a function.
Raise == [kind |-> "raise"]

\* data[data["County"] == county].iloc[0] (lines 70, 113): the first row
\* named exactly `county`; .iloc[0] raises IndexError when there is none.
FirstRow(county) ==
    LET hit == SelectSeq(data.rows, LAMBDA r : r.County = county)
    IN IF hit = <<>> THEN Raise ELSE hit[1]

\* county_snapshot (lines 69-71).
county_snapshot(county) == FirstRow(county)

Has(row, col) == col \in DOMAIN row

\* f"{x:.1f}" of a value kept in tenths: its integer part and one decimal;
\* NaN prints as nan.
Fmt1f(cell) == IF notna(cell) THEN <<cell[1] \div 10, ".", cell[1] % 10>>
               ELSE <<"nan">>

ObesityThreshold == 35
UninsuredThreshold == 15
IncomeThreshold == 60000

\* The drivers list (lines 89-95).
Drivers(row) ==
    (IF Has(row, "Obesity") /\ notna(row.Obesity)
        /\ row.Obesity[1] >= ObesityThreshold
     THEN <<"higher obesity">> ELSE <<>>)
    \o (IF Has(row, "Uninsured") /\ notna(row.Uninsured)
           /\ row.Uninsured[1] >= UninsuredThreshold
        THEN <<"higher uninsured rate">> ELSE <<>>)
    \o (IF Has(row, "Median_Income") /\ notna(row.Median_Income)
           /\ row.Median_Income[1] <= IncomeThreshold
        THEN <<"lower median income">> ELSE <<>>)

\* sep.join(xs)
RECURSIVE Join(_, _)
Join(sep, xs) == IF Len(xs) <= 1 THEN xs
                 ELSE <<Head(xs), sep>> \o Join(sep, Tail(xs))

\* The parts list of risk_explanation (lines 75-102); a sentence is a
\* record of its kind and of the values printed in it.
Parts(row) ==
    (IF texas_diabetes # NoBenchmark /\ Has(row, "Diabetes")
        /\ notna(row.Diabetes)
     THEN <<[kind |-> "benchmark",
             dir |-> IF notna(texas_diabetes[1])
                        /\ row.Diabetes[1] > texas_diabetes[1][1]
                     THEN "above" ELSE "below",
             value |-> Fmt1f(texas_diabetes[1])]>>
     ELSE <<>>)
    \o (IF Has(row, "Risk_Category") /\ notna(row.Risk_Category)
        THEN <<[kind |-> "category", label |-> row.Risk_Category[1]]>>
        ELSE <<>>)
    \o (IF Drivers(row) # <<>>
        THEN <<[kind |-> "drivers", list |-> Join(", ", Drivers(row))]>>
        ELSE <<>>)
    \o (IF Has(row, "PM2.5") /\ notna(row["PM2.5"])
        THEN <<[kind |-> "pm25"]>>
        ELSE <<>>)

Fallback == <<[kind |-> "fallback"]>>

\* risk_explanation (lines 73-104).
risk_explanation(row) ==
    IF Parts(row) # <<>> THEN Join([kind |-> " "], Parts(row)) ELSE Fallback

\* f"{x}": the value as it is, NaN as nan.
FmtStr(cell) == IF notna(cell) THEN <<cell[1]>> ELSE <<"nan">>

\* The digits of f"{x:,.0f}": groups of three separated by commas.
RECURSIVE Thousands(_)
Thousands(n) == IF n < 1000 THEN <<n>>
                ELSE Thousands(n \div 1000) \o <<",", n % 1000>>

\* f"${x:,.0f}" (line 121)
FmtMoney(cell) == IF notna(cell) THEN Thousands(cell[1]) ELSE <<"nan">>

\* f"{x:.2f}" (line 122) of a whole number.
Fmt2f(cell) == IF notna(cell) THEN <<cell[1], ".", "00">> ELSE <<"nan">>

StatsColumns == {"Diabetes", "Obesity", "Uninsured", "Median_Income",
                 "Risk_Score", "Risk_Rank"}

\* The f-string of lines 115-124 for `county` and its row: row[col] raises
\* KeyError for a column the table lacks, int(NaN) raises ValueError.
Response(county, row) ==
    IF ~(StatsColumns \subseteq DOMAIN row) THEN Raise
    ELSE IF ~notna(row.Risk_Rank) THEN Raise
    ELSE [kind |-> "stats",
          county |-> county,
          Diabetes |-> FmtStr(row.Diabetes),
          Obesity |-> FmtStr(row.Obesity),
          Uninsured |-> FmtStr(row.Uninsured),
          Median_Income |-> FmtMoney(row.Median_Income),
          Risk_Score |-> Fmt2f(row.Risk_Score),
          Risk_Rank |-> <<row.Risk_Rank[1]>>]

NotFound == [kind |-> "not_found"]

\* chatbot (lines 108-127): the first name of the County column, in table
\* order, whose lower-cased form is in the lower-cased message.
chatbot(message) ==
    LET msg == Lower(message)
        hits == SelectSeq(CountyColumn(data),
                          LAMBDA county : Contains(msg, Lower(county)))
    IN IF hits = <<>> THEN NotFound
       ELSE Response(hits[1], FirstRow(hits[1]))

----------------------------------------------------------------------------
(* The chat page: one run of the script per user message, lines 219-256.  *)

Choose == <<"(choose)">>

Guidance == [kind |-> "guidance"]

\* Lines 238-240.
Resolve(user_input) ==
    LET found == find_county_from_text(user_input)
    IN IF found = None /\ selected # Choose THEN selected ELSE found

\* Lines 243-252: the answer, or Raise when a call in it raises.
Answer(found) ==
    IF found = None THEN Guidance
    ELSE LET row == county_snapshot(found)
             stats == chatbot(found)
         IN IF row = Raise \/ stats = Raise THEN Raise
            ELSE [kind |-> "answer", stats |-> stats,
                  interpretation |-> risk_explanation(row)]

UserTurns == Cardinality({i \in 1..Len(messages) : messages[i].role = "user"})

\* The sidebar selectbox (line 136): "(choose)" or one of the counties.
Select(c) ==
    /\ c \in {Choose} \cup {counties[i] : i \in 1..Len(counties)}
    /\ selected' = c
    /\ UNCHANGED <<raw, data, counties, texas_diabetes, messages,
                   county_found, raised>>

\* A message typed into st.chat_input (lines 229-256).  The user turn is
\* appended first (line 233); an exception in the answer ends the run
\* before line 254 and leaves the session state as it then is.
HandleMessage(user_input) ==
    /\ user_input # <<>>
    /\ UserTurns < MaxTurns
    /\ LET found == Resolve(user_input)
           answer == Answer(found)
           withUser == Append(messages,
                              [role |-> "user", content |-> user_input])
       IN /\ county_found' = found
          /\ raised' = (answer = Raise)
          /\ messages' = IF answer = Raise THEN withUser
                         ELSE Append(withUser, [role |-> "assistant",
                                                content |-> answer])
    /\ UNCHANGED <<raw, data, counties, texas_diabetes, selected>>

----------------------------------------------------------------------------
(* The tables and messages the model is run on. *)

Gray == <<"G", "r", "a", "y">>
Grayson == <<"G", "r", "a", "y", "s", "o", "n">>
Ward == <<"W", "a", "r", "d">>
Texas == <<"T", "e", "x", "a", "s">>

\* County cells as they may stand in the file: untrimmed, a repeated
\* name, the statewide row in lower case.
Names == {Gray, Grayson, Ward, <<" ">> \o Gray, texas \o <<" ">>}

\* Chat messages.
Texts == {Grayson,
          Ward \o <<" ">> \o Gray,
          texas \o <<" ">> \o Lower(Gray),
          <<"h", "i">>}

BaseColumns == {"County", "Diabetes", "Obesity", "Uninsured",
                "Median_Income", "Risk_Score", "Risk_Rank"}

\* The i-th row of a file whose numeric cells are all present.
BaseRow(name, i) ==
    [County |-> name, Diabetes |-> <<100 + 10 * i>>, Obesity |-> <<30 + i>>,
     Uninsured |-> <<10 + i>>, Median_Income |-> <<50000 + 1000 * i>>,
     Risk_Score |-> <<10 * i>>, Risk_Rank |-> <<i>>]

\* Files of up to MaxRows rows with any County cells.
NameTables ==
    {[columns |-> BaseColumns,
      rows |-> [i \in DOMAIN f |-> BaseRow(f[i], i)]] :
        f \in UNION {[1..n -> Names] : n \in 0..MaxRows}}

InitFrom(tbl) ==
    /\ raw = tbl
    /\ data = Normalised(tbl)
    /\ counties = CountyList(StripCounty(tbl))
    /\ texas_diabetes = TexasDiabetes(Normalised(tbl))
    /\ selected = Choose
    /\ messages = <<>>
    /\ county_found = None
    /\ raised = FALSE

Init == \E tbl \in NameTables : InitFrom(tbl)

\* Row i of the risk files is named RiskNames[i], repeating after the last:
\* the statewide row stands second.
RiskNames == <<Gray, Texas, Ward, Grayson>>
RiskName(i) == RiskNames[((i - 1) % Len(RiskNames)) + 1]

Scores == {NaN, <<10>>, <<20>>}

\* Risk_Percentile cells of a file, in hundredths: the bin edges, the
\* values next to them, and a missing one.
Percentiles == {NaN, <<0, 100>>, <<3333, 100>>, <<3334, 100>>, <<6666, 100>>,
                <<6667, 100>>, <<10000, 100>>}

Functions(n, S) == UNION {[1..k -> S] : k \in 1..n}

\* Files with Risk_Score only: percentile and category are both derived.
ScoreTables ==
    {[columns |-> BaseColumns,
      rows |-> [i \in DOMAIN f |->
                   [BaseRow(RiskName(i), i) EXCEPT !.Risk_Score = f[i]]]] :
        f \in Functions(MaxRows, Scores)}

\* Files that bring Risk_Percentile: only the category is derived.
PercentileTables ==
    {[columns |-> BaseColumns \cup {"Risk_Percentile"},
      rows |-> [i \in DOMAIN f |->
                   WithCell(BaseRow(RiskName(i), i), "Risk_Percentile", f[i])]] :
        f \in Functions(MaxRows - 1, Percentiles)}

\* Files that bring both columns, and files with neither Risk_Score nor
\* Risk_Percentile: nothing is derived.
PlainTables ==
    {[columns |-> BaseColumns \cup {"Risk_Percentile", "Risk_Category"},
      rows |-> [i \in DOMAIN f |->
                   WithCell(WithCell(BaseRow(RiskName(i), i),
                                     "Risk_Percentile", <<5000, 100>>),
                            "Risk_Category", f[i])]] :
        f \in Functions(MaxRows - 1, {NaN, <<"High">>})}
    \cup
    {[columns |-> BaseColumns \ {"Risk_Score"},
      rows |-> [i \in 1..n |->
                   [c \in BaseColumns \ {"Risk_Score"} |->
                       BaseRow(RiskName(i), i)[c]]]] : n \in 1..MaxRows}

InitRisk ==
    \E tbl \in ScoreTables \cup PercentileTables \cup PlainTables :
        InitFrom(tbl)

\* Files of one county row, with or without a statewide row after it, whose
\* cells stand on either side of each threshold of risk_explanation or are
\* missing.  An option <<>> leaves the column (or the statewide row) out,
\* <<cell>> gives the cell.
ExplainTables ==
    {LET cols == (BaseColumns \cup {"Risk_Category"})
                   \cup (IF pm # <<>> THEN {"PM2.5"} ELSE {})
         county == [County |-> Gray, Diabetes |-> d, Obesity |-> o,
                    Uninsured |-> u, Median_Income |-> m,
                    Risk_Score |-> <<80>>, Risk_Rank |-> k,
                    Risk_Category |-> cat]
         state == [County |-> Texas, Diabetes |-> IF t # <<>> THEN t[1] ELSE NaN,
                   Obesity |-> <<33>>, Uninsured |-> <<17>>,
                   Median_Income |-> <<67000>>, Risk_Score |-> NaN,
                   Risk_Rank |-> NaN, Risk_Category |-> NaN]
         full == [columns |-> cols,
                  rows |-> [i \in 1..(IF t # <<>> THEN 2 ELSE 1) |->
                               LET r == IF i = 1 THEN county ELSE state
                               IN IF pm # <<>> THEN WithCell(r, "PM2.5", pm[1])
                                  ELSE r]]
     IN IF hasDiabetes THEN full
        ELSE [columns |-> cols \ {"Diabetes"},
              rows |-> [i \in 1..Len(full.rows) |->
                           [c \in cols \ {"Diabetes"} |-> full.rows[i][c]]]] :
        hasDiabetes \in BOOLEAN,
        d \in {NaN, <<110>>, <<120>>},
        t \in {<<>>, <<NaN>>, <<<<110>>>>},
        o \in {NaN, <<ObesityThreshold - 1>>, <<ObesityThreshold>>},
        u \in {NaN, <<UninsuredThreshold - 1>>, <<UninsuredThreshold>>},
        m \in {NaN, <<IncomeThreshold>>, <<IncomeThreshold + 1>>},
        cat \in {NaN, <<"High">>},
        pm \in {<<>>, <<NaN>>, <<<<8>>>>},
        k \in {NaN, <<1>>}}

InitExplain == \E tbl \in ExplainTables : InitFrom(tbl)

Next ==
    \/ \E c \in {Choose} \cup Names \cup {Strip(n) : n \in Names} : Select(c)
    \/ \E user_input \in Texts : HandleMessage(user_input)

Spec == Init /\ [][Next]_vars

SpecRisk == InitRisk /\ [][Next]_vars

SpecExplain == InitExplain /\ [][Next]_vars

----------------------------------------------------------------------------
(* Properties. *)

IndexSet == {counties[i] : i \in 1..Len(counties)}

\* The strings respond() is probed with besides the chat messages.
Probes == Texts \cup Names \cup {Strip(n) : n \in Names}

LastIsAnswer ==
    /\ messages # <<>>
    /\ messages[Len(messages)].role = "assistant"
    /\ messages[Len(messages)].content.kind = "answer"

\* C1: for every county c of the index and every text that contains c
\* verbatim, the record of find_county(text) equals the record of c, also
\* when one county name is a substring of another.
C1_MatchedCountyHasSameRecord ==
    \A c \in IndexSet : \A text \in Texts :
        Contains(text, c) =>
            county_snapshot(find_county_from_text(text)) = county_snapshot(c)

\* C1, amended: for such c and text, find_county(text) is an indexed
\* county that is c or stands before c in the list, and it is c itself (so
\* the records are equal) when no county before c in the list has its
\* lower-cased name in the lower-cased text.
C1_MatchedCountyUnlessEarlierMatch ==
    \A c \in IndexSet : \A text \in Texts :
        Contains(text, c) =>
            LET found == find_county_from_text(text)
                earlier == {e \in IndexSet : /\ StrLess(e, c)
                                             /\ Contains(Lower(text), Lower(e))}
            IN /\ found \in IndexSet
               /\ found = c \/ found \in earlier
               /\ earlier = {} =>
                     county_snapshot(found) = county_snapshot(c)

\* C1's case: "Grayson" typed where Grayson is indexed and Gray is not.
C1_Witness ==
    /\ {Grayson, Ward} \subseteq IndexSet
    /\ Gray \notin IndexSet
    /\ Len(messages) = 2
    /\ messages[1].content = Grayson
    /\ county_found = Grayson
    /\ messages[2].content.kind = "answer"
    /\ messages[2].content.stats.county = Grayson

\* C4: for every name that is not the trimmed name of any record,
\* respond(name) returns the fixed not-found message: it neither raises nor
\* returns the stats of another record.
C4_UnknownNameIsNotFound ==
    \A name \in Probes :
        (\A i \in 1..Len(data.rows) : data.rows[i].County # name)
            => chatbot(name) = NotFound

\* C5: the county list is sorted, has no duplicates, has no entry equal to
\* "Texas" case-insensitively, and contains every other trimmed County
\* value of the table.  The order is the one of Python's str comparison.
C5_CountyListSortedDistinctNoTexas ==
    /\ \A i, j \in 1..Len(counties) :
           i < j => /\ counties[i] # counties[j]
                    /\ StrLess(counties[i], counties[j])
    /\ \A i \in 1..Len(counties) :
           [k \in 1..Len(counties[i]) |-> LowerChar(counties[i][k])] # texas
    /\ \A i \in 1..Len(raw.rows) :
           LET name == Strip(raw.rows[i].County)
           IN Lower(name) # texas => name \in IndexSet

\* C5's case: a file with an untrimmed repeat of a county name and a
\* statewide row written before it; the one county is picked in the sidebar.
C5_Witness ==
    /\ Len(raw.rows) = 3
    /\ IsTexas(Strip(raw.rows[1].County))
    /\ raw.rows[2].County # raw.rows[3].County
    /\ Strip(raw.rows[2].County) = Strip(raw.rows[3].County)
    /\ counties = <<Gray>>
    /\ selected = Gray

\* C9: find_county(text) is None exactly when no indexed county's
\* lower-cased name is a substring of the lower-cased text, and otherwise
\* the earliest, in the list's order, of the indexed counties whose
\* lower-cased name is one, wherever the names stand in the text.
C9_FirstSortedMatch ==
    \A text \in Texts :
        LET hits == {c \in IndexSet : Contains(Lower(text), Lower(c))}
            found == find_county_from_text(text)
        IN /\ (found = None) <=> (hits = {})
           /\ hits # {} =>
                 /\ found \in hits
                 /\ \A c \in hits : c = found \/ StrLess(found, c)

\* C9's case: a message naming Ward before Gray resolved to Gray.
C9_Witness ==
    /\ {Gray, Ward} \subseteq IndexSet
    /\ Len(messages) = 2
    /\ messages[1].content = Ward \o <<" ">> \o Gray
    /\ selected = Choose
    /\ county_found = Gray

\* C10: in an answer for a resolved county c, the stats block reports the
\* row named exactly c, the row the explanation is built from.
C10_StatsOfResolvedCounty ==
    LastIsAnswer =>
        LET answer == messages[Len(messages)].content
        IN /\ answer.stats = Response(county_found,
                                       county_snapshot(county_found))
           /\ answer.interpretation =
                 risk_explanation(county_snapshot(county_found))

NotTexasRows(rows) == SelectSeq(rows, LAMBDA r : ~IsTexas(Strip(r.County)))

PercentileDerived ==
    "Risk_Percentile" \notin raw.columns /\ "Risk_Percentile" \in data.columns

CategoryDerived ==
    "Risk_Category" \notin raw.columns /\ "Risk_Category" \in data.columns

\* C2: a derived Risk_Category is Low on [0, 33.33), Moderate on
\* [33.33, 66.66) and High on [66.66, 100]: 33.33 is Moderate, 66.66 High,
\* 0 Low.
C2_BucketsClosedOnTheLeft ==
    CategoryDerived =>
        \A i \in 1..Len(data.rows) :
            LET p == data.rows[i].Risk_Percentile
                cat == data.rows[i].Risk_Category
            IN notna(p) =>
                /\ (cat = <<"Low">>) <=>
                      (BinLow * p[2] <= 100 * p[1]
                         /\ 100 * p[1] < BinModerate * p[2])
                /\ (cat = <<"Moderate">>) <=>
                      (BinModerate * p[2] <= 100 * p[1]
                         /\ 100 * p[1] < BinHigh * p[2])
                /\ (cat = <<"High">>) <=>
                      (BinHigh * p[2] <= 100 * p[1]
                         /\ 100 * p[1] <= BinTop * p[2])

\* C2, amended: a derived Risk_Category is Low on [0, 33.33], Moderate on
\* (33.33, 66.66] and High on (66.66, 100]: 33.33 is Low, 66.66 Moderate,
\* 0 Low.
C2_BucketsClosedOnTheRight ==
    CategoryDerived =>
        \A i \in 1..Len(data.rows) :
            LET p == data.rows[i].Risk_Percentile
                cat == data.rows[i].Risk_Category
            IN notna(p) =>
                /\ (cat = <<"Low">>) <=>
                      (BinLow * p[2] <= 100 * p[1]
                         /\ 100 * p[1] <= BinModerate * p[2])
                /\ (cat = <<"Moderate">>) <=>
                      (BinModerate * p[2] < 100 * p[1]
                         /\ 100 * p[1] <= BinHigh * p[2])
                /\ (cat = <<"High">>) <=>
                      (BinHigh * p[2] < 100 * p[1]
                         /\ 100 * p[1] <= BinTop * p[2])

\* C2's case: a file with the percentiles 33.33 and 66.66 and no category;
\* the chat answer for the first row names its category.
C2_Witness ==
    /\ CategoryDerived
    /\ Len(data.rows) = 2
    /\ data.rows[1].Risk_Percentile = <<BinModerate, 100>>
    /\ data.rows[1].Risk_Category = <<"Low">>
    /\ data.rows[2].Risk_Percentile = <<BinHigh, 100>>
    /\ data.rows[2].Risk_Category = <<"Moderate">>
    /\ LastIsAnswer
    /\ county_found = data.rows[1].County
    /\ LET said == messages[Len(messages)].content.interpretation
       IN \E k \in 1..Len(said) :
              said[k] = [kind |-> "category", label |-> "Low"]

\* C3: for every county record of the table, respond(county) does not
\* raise, and a stats field that is missing is rendered as "N/A".
C3_MissingFieldsRenderNA ==
    \A i \in 1..Len(data.rows) :
        LET row == data.rows[i]
            response == chatbot(row.County)
        IN ~IsTexas(row.County) =>
            /\ response # Raise
            /\ response.kind = "stats"
            /\ \A f \in StatsColumns :
                  (f \notin DOMAIN row \/ ~notna(row[f]))
                      => response[f] = <<"N/A">>

\* C6: the statewide row is left out of the percentile and category
\* computation: the counties' derived cells are those of the file without
\* it, and it gets no derived Risk_Percentile and no derived Risk_Category,
\* whichever of the two columns the file lacks.
C6_StatewideRowExcluded ==
    /\ (PercentileDerived \/ CategoryDerived) =>
          NotTexasRows(data.rows)
              = Normalised([columns |-> raw.columns,
                            rows |-> NotTexasRows(raw.rows)]).rows
    /\ PercentileDerived =>
          \A i \in 1..Len(data.rows) :
              IsTexas(data.rows[i].County)
                  => data.rows[i].Risk_Percentile = NaN
    /\ CategoryDerived =>
          \A i \in 1..Len(data.rows) :
              IsTexas(data.rows[i].County)
                  => data.rows[i].Risk_Category = NaN

\* The explanation as C7 states it.
C7_ClaimedParts(row) ==
    (IF texas_diabetes # NoBenchmark /\ notna(texas_diabetes[1])
        /\ Has(row, "Diabetes") /\ notna(row.Diabetes)
     THEN <<[kind |-> "benchmark",
             dir |-> IF row.Diabetes[1] > texas_diabetes[1][1]
                     THEN "above" ELSE "below",
             value |-> Fmt1f(texas_diabetes[1])]>>
     ELSE <<>>)
    \o (IF Has(row, "Risk_Category") /\ notna(row.Risk_Category)
        THEN <<[kind |-> "category", label |-> row.Risk_Category[1]]>>
        ELSE <<>>)
    \o (LET obesity == Has(row, "Obesity") /\ notna(row.Obesity)
                          /\ row.Obesity[1] >= ObesityThreshold
            uninsured == Has(row, "Uninsured") /\ notna(row.Uninsured)
                          /\ row.Uninsured[1] >= UninsuredThreshold
            income == Has(row, "Median_Income") /\ notna(row.Median_Income)
                          /\ row.Median_Income[1] <= IncomeThreshold
            list == (IF obesity THEN <<"higher obesity">> ELSE <<>>)
                    \o (IF uninsured THEN <<"higher uninsured rate">>
                        ELSE <<>>)
                    \o (IF income THEN <<"lower median income">> ELSE <<>>)
        IN IF obesity \/ uninsured \/ income
           THEN <<[kind |-> "drivers", list |-> Join(", ", list)]>>
           ELSE <<>>)
    \o (IF Has(row, "PM2.5") /\ notna(row["PM2.5"])
        THEN <<[kind |-> "pm25"]>>
        ELSE <<>>)

\* C7: explain(record, benchmark) is the single-space join of the benchmark
\* sentence ("above" exactly when the record's diabetes is strictly greater
\* than the benchmark), the category sentence, the driver sentence
\* (obesity >= 35, uninsured >= 15, income <= 60000, in this order) and the
\* PM2.5 note, each only when every value it uses, the benchmark included,
\* is present and not missing; the fallback exactly when there is none.
C7_ExplanationAsClaimed ==
    \A i \in 1..Len(data.rows) :
        LET row == data.rows[i]
            said == risk_explanation(row)
            claimed == C7_ClaimedParts(row)
        IN /\ Len(said) = IF claimed = <<>> THEN 1 ELSE 2 * Len(claimed) - 1
           /\ claimed = <<>> => said = Fallback
           /\ \A k \in 1..Len(claimed) :
                 /\ said[2 * k - 1].kind = claimed[k].kind
                 /\ said[2 * k - 1] = claimed[k]
                 /\ k > 1 => said[2 * k - 2] = [kind |-> " "]

\* C8: the transcript starts empty and every handled user message appends
\* the user turn followed by its assistant turn: after n messages it has 2n
\* entries alternating user, assistant.
C8_TranscriptPairsEveryTurn ==
    /\ Len(messages) = 2 * UserTurns
    /\ \A i \in 1..Len(messages) :
          messages[i].role = IF i % 2 = 1 THEN "user" ELSE "assistant"

====
